---- MODULE Spec2Model ----
(***************************************************************************)
(* Model of the supertux-trainer core: the hook table of MinHookWrapper    *)
(* with its FunctionHook owners (src/src/hooks/MinHookWrapper.cpp), and    *)
(* the PatternScanner over a memory provider                               *)
(* (src/src/scanner/PatternScanner.cpp, src/src/memory/Pattern.cpp,        *)
(* src/src/memory/MockMemoryProvider.cpp).                                 *)
(***************************************************************************)
EXTENDS Integers, Sequences, FiniteSets, TLC

(***************************************************************************)
(* Bounds of the hook model.  Direct callers of the static engine pass any *)
(* target in Targets with any routine in Routines.  The console constructs *)
(* its FunctionHook objects, and makes its own engine calls, for the       *)
(* addresses in Addrs and always with the routine MockHookFunction(a).     *)
(***************************************************************************)
MaxTarget == 2
MaxRoutine == 2
MaxAddr == 1
MaxObjects == 1

MaxThreads == 2

Targets == 1..MaxTarget
Routines == 1..MaxRoutine
Addrs == 1..MaxAddr
Objects == 1..MaxObjects
Threads == 1..MaxThreads

\* ConsoleUI: hookFunction = address + 0x1000, the mock hook function.
MockHookFunction(address) == address + 4096

\* The (target, routine) pairs a direct caller and the console pass.
EngineArgs == Targets \X Routines
ConsoleArgs == {<<a, MockHookFunction(a)>> : a \in Addrs}

(***************************************************************************)
(* MHStatus (MinHookWrapper.h:14-28), the values the mock engine returns.  *)
(***************************************************************************)
MH_OK == "MH_OK"
MH_ERROR_ALREADY_INITIALIZED == "MH_ERROR_ALREADY_INITIALIZED"
MH_ERROR_NOT_INITIALIZED == "MH_ERROR_NOT_INITIALIZED"
MH_ERROR_ALREADY_CREATED == "MH_ERROR_ALREADY_CREATED"
MH_ERROR_NOT_CREATED == "MH_ERROR_NOT_CREATED"
MH_ERROR_ENABLED == "MH_ERROR_ENABLED"
MH_ERROR_DISABLED == "MH_ERROR_DISABLED"
NoStatus == "none"

VARIABLES
    s_initialized,  \* MinHookWrapper::s_initialized
    s_lastError,    \* MinHookWrapper::s_lastError
    s_hooks,        \* MinHookWrapper::s_hooks, a vector of HookInfo
    fhooks,         \* the FunctionHook objects alive in the controller
    last,           \* the last call made: its arguments, results and trace
    threads,        \* controller threads inside a table operation
    regions,        \* the target's memory as the provider sees it
    scan,           \* the locals of the scanSingle call in progress
    probe,          \* observations of the scan: provider reads, memory read
    m_useBoyerMoore, \* PatternScanner::m_useBoyerMoore
    api             \* the last call of a Pattern or scanner function, with its result

hookVars == <<s_initialized, s_lastError, s_hooks, fhooks, last>>
concVars == <<threads>>
scanVars == <<regions, scan, probe, m_useBoyerMoore, api>>
vars == <<hookVars, concVars, scanVars>>

(***************************************************************************)
(* Bounds of the scanner model: the mock address space scaled down.  The   *)
(* module region starts at ModuleBase and the heap region follows it       *)
(* directly, as 0x400000 + 0x100000 = 0x500000 in the mock.                *)
(***************************************************************************)
MaxByte == 1
ModuleBase == 1
ModuleSize == 3
HeapSize == 1
MaxPatternLen == 2
MaxLivePatternLen == 1

Bytes == 0..MaxByte
HeapBase == ModuleBase + ModuleSize
Bases == {ModuleBase, HeapBase}
RegionSize(b) == IF b = ModuleBase THEN ModuleSize ELSE HeapSize
Addresses == 0..(HeapBase + HeapSize)
Sizes == 0..ModuleSize

\* The byte sequences of length n.
SeqsOfLen(S, n) == [1..n -> S]

\* MockMemoryProvider::initializeMockMemory scaled down: the module filled
\* with one byte value and a pattern placed inside it, the heap zero-filled.
MockMemory ==
    [b \in Bases |->
        IF b = ModuleBase
        THEN [k \in 1..ModuleSize |-> IF k = ModuleSize THEN 0 ELSE MaxByte]
        ELSE [k \in 1..HeapSize |-> 0]]

(***************************************************************************)
(* Pattern: m_bytes and m_mask (true = must match) of equal length; the    *)
(* name is descriptive only and left out.                                  *)
(***************************************************************************)
Pattern(bytes, mask) == [m_bytes |-> bytes, m_mask |-> mask]

\* The patterns the byte/mask constructor accepts, up to length maxLen.
PatternsUpTo(maxLen) ==
    UNION {{Pattern(b, m) : b \in SeqsOfLen(Bytes, n), m \in SeqsOfLen(BOOLEAN, n)} :
              n \in 0..maxLen}

\* The patterns scanned for in a target at rest, and in a running target.
Patterns == PatternsUpTo(MaxPatternLen)
LivePatterns == PatternsUpTo(MaxLivePatternLen)

PatternSize(p) == Len(p.m_bytes)

\* The loop of Pattern::matches from position k on: false at the first fixed
\* position whose byte differs.
RECURSIVE MatchesFrom(_, _, _)
MatchesFrom(p, data, k) ==
    IF k > Len(p.m_bytes) THEN TRUE
    ELSE IF p.m_mask[k] /\ data[k] # p.m_bytes[k] THEN FALSE
    ELSE MatchesFrom(p, data, k + 1)

matches_AllPositions(p, data) ==
    \A k \in 1..Len(p.m_bytes) : data[k] = p.m_bytes[k]

\* Pattern::matches(data)
matches(p, data) == MatchesFrom(p, data, 1)

(***************************************************************************)
(* MockMemoryProvider over m_memoryRegions (regs: base -> bytes).          *)
(***************************************************************************)
\* std::map::lower_bound(address): the smallest key not less than address,
\* or 0 for end() (no region has base 0).
LowerBound(regs, address) ==
    IF \E b \in DOMAIN regs : b >= address
    THEN CHOOSE b \in DOMAIN regs :
            b >= address /\ \A c \in DOMAIN regs : c >= address => b <= c
    ELSE 0

isValidAddress(regs, address) ==
    \E b \in DOMAIN regs : address >= b /\ address < b + Len(regs[b])

\* readMemory(address, buffer, size): whether it succeeded and the buffer.
readMemory(regs, address, size) ==
    LET regionStart == LowerBound(regs, address)
    IN  IF regionStart = 0 THEN [ok |-> FALSE, buffer |-> <<>>]
        ELSE IF address < regionStart
                \/ address + size > regionStart + Len(regs[regionStart])
        THEN [ok |-> FALSE, buffer |-> <<>>]
        ELSE [ok |-> TRUE,
              buffer |-> SubSeq(regs[regionStart], address - regionStart + 1,
                                address - regionStart + size)]

readMemoryRegion_ZeroFilled(regs, address, size) ==
    IF readMemory(regs, address, size).ok
    THEN readMemory(regs, address, size).buffer
    ELSE [k \in 1..size |-> 0]

\* PatternScanner::readMemoryRegion: the bytes read, empty on failure.
readMemoryRegion(regs, address, size) ==
    IF readMemory(regs, address, size).ok
    THEN readMemory(regs, address, size).buffer
    ELSE <<>>

(***************************************************************************)
(* HookInfo(name, target, hook): originalFunction 0, enabled false.  The   *)
(* name is always "" and the type always HOOK_JMP in createHook; neither   *)
(* is read by any operation, so they are left out of the record.           *)
(***************************************************************************)
HookInfo(target, hook) ==
    [targetAddress |-> target, hookFunction |-> hook,
     originalFunction |-> 0, enabled |-> FALSE]

(***************************************************************************)
(* The engine's static state as one value, so that the static member       *)
(* functions become operators from engine state to engine state.           *)
(***************************************************************************)
Engine == [initialized |-> s_initialized, lastError |-> s_lastError,
           hooks |-> s_hooks]

\* std::find_if over s_hooks by targetAddress: index of the first record
\* for targetAddr, 0 for end().
FindHook(hooks, targetAddr) ==
    IF \E k \in 1..Len(hooks) : hooks[k].targetAddress = targetAddr
    THEN CHOOSE k \in 1..Len(hooks) :
            /\ hooks[k].targetAddress = targetAddr
            /\ \A j \in 1..(k - 1) : hooks[j].targetAddress # targetAddr
    ELSE 0

\* vector::erase(it)
EraseAt(hooks, k) ==
    SubSeq(hooks, 1, k - 1) \o SubSeq(hooks, k + 1, Len(hooks))

\* Number of records for a target in a table.
RecordsFor(hooks, targetAddr) ==
    Cardinality({k \in 1..Len(hooks) : hooks[k].targetAddress = targetAddr})

Res(E, status, trace) == [E |-> E, status |-> status, trace |-> trace]

initialize(E) ==
    IF E.initialized
    THEN Res([E EXCEPT !.lastError = "MinHook already initialized"],
             MH_ERROR_ALREADY_INITIALIZED, <<>>)
    ELSE Res([E EXCEPT !.initialized = TRUE,
                       !.lastError = "Initialized successfully (mock implementation)"],
             MH_OK, <<>>)

createHook_Enabled(E, target, hook) ==
    IF ~E.initialized
    THEN Res([E EXCEPT !.lastError = "MinHook not initialized"],
             MH_ERROR_NOT_INITIALIZED, <<>>)
    ELSE IF FindHook(E.hooks, target) # 0
    THEN Res([E EXCEPT !.lastError = "Hook already exists for this address"],
             MH_ERROR_ALREADY_CREATED, <<>>)
    ELSE Res([E EXCEPT !.hooks = Append(E.hooks,
                          [HookInfo(target, hook) EXCEPT !.originalFunction = target,
                                                         !.enabled = TRUE]),
                       !.lastError = "Hook created successfully (mock)"],
             MH_OK, <<"push_back">>)

createHook_NoExistenceCheck(E, target, hook) ==
    IF ~E.initialized
    THEN Res([E EXCEPT !.lastError = "MinHook not initialized"],
             MH_ERROR_NOT_INITIALIZED, <<>>)
    ELSE Res([E EXCEPT !.hooks = Append(E.hooks,
                          [HookInfo(target, hook) EXCEPT !.originalFunction = target]),
                       !.lastError = "Hook created successfully (mock)"],
             MH_OK, <<"push_back">>)

createHook_Overwrite(E, target, hook) ==
    IF ~E.initialized
    THEN Res([E EXCEPT !.lastError = "MinHook not initialized"],
             MH_ERROR_NOT_INITIALIZED, <<>>)
    ELSE IF FindHook(E.hooks, target) # 0
    THEN Res([E EXCEPT !.hooks[FindHook(E.hooks, target)].hookFunction = hook,
                       !.lastError = "Hook already exists for this address"],
             MH_ERROR_ALREADY_CREATED, <<>>)
    ELSE Res([E EXCEPT !.hooks = Append(E.hooks,
                          [HookInfo(target, hook) EXCEPT !.originalFunction = target]),
                       !.lastError = "Hook created successfully (mock)"],
             MH_OK, <<"push_back">>)

\* createHook(target, hook, original): the status, the new engine state;
\* *original is written only on MH_OK and then holds targetAddr.
createHook(E, target, hook) ==
    IF ~E.initialized
    THEN Res([E EXCEPT !.lastError = "MinHook not initialized"],
             MH_ERROR_NOT_INITIALIZED, <<>>)
    ELSE IF FindHook(E.hooks, target) # 0
    THEN Res([E EXCEPT !.lastError = "Hook already exists for this address"],
             MH_ERROR_ALREADY_CREATED, <<>>)
    ELSE Res([E EXCEPT !.hooks = Append(E.hooks,
                          [HookInfo(target, hook) EXCEPT !.originalFunction = target]),
                       !.lastError = "Hook created successfully (mock)"],
             MH_OK, <<"push_back">>)

enableHook_NoEnabledCheck(E, target) ==
    IF ~E.initialized
    THEN Res([E EXCEPT !.lastError = "MinHook not initialized"],
             MH_ERROR_NOT_INITIALIZED, <<>>)
    ELSE IF FindHook(E.hooks, target) = 0
    THEN Res([E EXCEPT !.lastError = "Hook not found"],
             MH_ERROR_NOT_CREATED, <<>>)
    ELSE Res([E EXCEPT !.hooks[FindHook(E.hooks, target)].enabled = TRUE,
                       !.lastError = "Hook enabled successfully (mock)"],
             MH_OK, <<"enable">>)

enableHook(E, target) ==
    IF ~E.initialized
    THEN Res([E EXCEPT !.lastError = "MinHook not initialized"],
             MH_ERROR_NOT_INITIALIZED, <<>>)
    ELSE IF FindHook(E.hooks, target) = 0
    THEN Res([E EXCEPT !.lastError = "Hook not found"],
             MH_ERROR_NOT_CREATED, <<>>)
    ELSE IF E.hooks[FindHook(E.hooks, target)].enabled
    THEN Res([E EXCEPT !.lastError = "Hook already enabled"],
             MH_ERROR_ENABLED, <<>>)
    ELSE Res([E EXCEPT !.hooks[FindHook(E.hooks, target)].enabled = TRUE,
                       !.lastError = "Hook enabled successfully (mock)"],
             MH_OK, <<"enable">>)

disableHook_ClearsAll(E, target) ==
    IF ~E.initialized
    THEN Res([E EXCEPT !.lastError = "MinHook not initialized"],
             MH_ERROR_NOT_INITIALIZED, <<>>)
    ELSE IF FindHook(E.hooks, target) = 0
    THEN Res([E EXCEPT !.lastError = "Hook not found"],
             MH_ERROR_NOT_CREATED, <<>>)
    ELSE IF ~E.hooks[FindHook(E.hooks, target)].enabled
    THEN Res([E EXCEPT !.lastError = "Hook already disabled"],
             MH_ERROR_DISABLED, <<>>)
    ELSE Res([E EXCEPT !.hooks = [k \in 1..Len(E.hooks) |->
                                    [E.hooks[k] EXCEPT !.enabled = FALSE]],
                       !.lastError = "Hook disabled successfully (mock)"],
             MH_OK, <<"disable">>)

disableHook(E, target) ==
    IF ~E.initialized
    THEN Res([E EXCEPT !.lastError = "MinHook not initialized"],
             MH_ERROR_NOT_INITIALIZED, <<>>)
    ELSE IF FindHook(E.hooks, target) = 0
    THEN Res([E EXCEPT !.lastError = "Hook not found"],
             MH_ERROR_NOT_CREATED, <<>>)
    ELSE IF ~E.hooks[FindHook(E.hooks, target)].enabled
    THEN Res([E EXCEPT !.lastError = "Hook already disabled"],
             MH_ERROR_DISABLED, <<>>)
    ELSE Res([E EXCEPT !.hooks[FindHook(E.hooks, target)].enabled = FALSE,
                       !.lastError = "Hook disabled successfully (mock)"],
             MH_OK, <<"disable">>)

removeHook_EraseWithoutDisable(E, target) ==
    IF ~E.initialized
    THEN Res([E EXCEPT !.lastError = "MinHook not initialized"],
             MH_ERROR_NOT_INITIALIZED, <<>>)
    ELSE IF FindHook(E.hooks, target) = 0
    THEN Res([E EXCEPT !.lastError = "Hook not found"],
             MH_ERROR_NOT_CREATED, <<>>)
    ELSE Res([E EXCEPT !.hooks = EraseAt(E.hooks, FindHook(E.hooks, target)),
                       !.lastError = "Hook removed successfully"],
             MH_OK, <<"erase">>)

\* removeHook(target): the record found is disabled through disableHook when
\* it is enabled (the iterator stays valid, disableHook assigns in place),
\* then erased.
removeHook(E, target) ==
    IF ~E.initialized
    THEN Res([E EXCEPT !.lastError = "MinHook not initialized"],
             MH_ERROR_NOT_INITIALIZED, <<>>)
    ELSE IF FindHook(E.hooks, target) = 0
    THEN Res([E EXCEPT !.lastError = "Hook not found"],
             MH_ERROR_NOT_CREATED, <<>>)
    ELSE LET it == FindHook(E.hooks, target)
             D  == IF E.hooks[it].enabled
                   THEN disableHook(E, target)
                   ELSE Res(E, NoStatus, <<>>)
         IN  Res([D.E EXCEPT !.hooks = EraseAt(D.E.hooks, it),
                             !.lastError = "Hook removed successfully"],
                 MH_OK, D.trace \o <<"erase">>)

\* The loop of uninitialize over s_hooks from position k on.
RECURSIVE DisableAllFrom(_, _)
DisableAllFrom(E, k) ==
    IF k > Len(E.hooks) THEN E
    ELSE DisableAllFrom(IF E.hooks[k].enabled
                        THEN disableHook(E, E.hooks[k].targetAddress).E
                        ELSE E, k + 1)

uninitialize_KeepsTable(E) ==
    IF ~E.initialized
    THEN Res([E EXCEPT !.lastError = "MinHook not initialized"],
             MH_ERROR_NOT_INITIALIZED, <<>>)
    ELSE Res([DisableAllFrom(E, 1) EXCEPT !.initialized = FALSE,
                                          !.lastError = "Uninitialized successfully"],
             MH_OK, <<>>)

uninitialize(E) ==
    IF ~E.initialized
    THEN Res([E EXCEPT !.lastError = "MinHook not initialized"],
             MH_ERROR_NOT_INITIALIZED, <<>>)
    ELSE Res([DisableAllFrom(E, 1) EXCEPT !.hooks = <<>>,
                                          !.initialized = FALSE,
                                          !.lastError = "Uninitialized successfully"],
             MH_OK, <<"clear">>)


(***************************************************************************)
(* FunctionHook: one owner object of a hook on m_targetAddress.            *)
(***************************************************************************)
NoObject == [alive |-> FALSE, m_targetAddress |-> 0, m_hookFunction |-> 0,
             m_originalFunction |-> 0, m_installed |-> FALSE,
             m_enabled |-> FALSE]

\* FunctionHook::FunctionHook(name, targetAddress, hookFunction, type)
FunctionHook(targetAddress, hookFunction) ==
    [alive |-> TRUE, m_targetAddress |-> targetAddress,
     m_hookFunction |-> hookFunction, m_originalFunction |-> 0,
     m_installed |-> FALSE, m_enabled |-> FALSE]

FRes(E, f, ret, status, trace) ==
    [E |-> E, f |-> f, ret |-> ret, status |-> status, trace |-> trace]

FunctionHook_install_IgnoresStatus(E, f) ==
    IF f.m_installed THEN FRes(E, f, TRUE, NoStatus, <<>>)
    ELSE LET R == createHook(E, f.m_targetAddress, f.m_hookFunction)
         IN  FRes(R.E, [f EXCEPT !.m_installed = TRUE,
                                 !.m_originalFunction = f.m_targetAddress],
                  TRUE, R.status, R.trace)

FunctionHook_install(E, f) ==
    IF f.m_installed THEN FRes(E, f, TRUE, NoStatus, <<>>)
    ELSE LET R == createHook(E, f.m_targetAddress, f.m_hookFunction)
         IN  IF R.status = MH_OK
             THEN FRes(R.E, [f EXCEPT !.m_installed = TRUE,
                                      !.m_originalFunction = f.m_targetAddress],
                       TRUE, R.status, R.trace)
             ELSE FRes(R.E, f, FALSE, R.status, R.trace)

FunctionHook_enable(E, f) ==
    IF ~f.m_installed THEN FRes(E, f, FALSE, NoStatus, <<>>)
    ELSE IF f.m_enabled THEN FRes(E, f, TRUE, NoStatus, <<>>)
    ELSE LET R == enableHook(E, f.m_targetAddress)
         IN  IF R.status = MH_OK
             THEN FRes(R.E, [f EXCEPT !.m_enabled = TRUE], TRUE, R.status, R.trace)
             ELSE FRes(R.E, f, FALSE, R.status, R.trace)

FunctionHook_disable(E, f) ==
    IF ~f.m_installed \/ ~f.m_enabled THEN FRes(E, f, TRUE, NoStatus, <<>>)
    ELSE LET R == disableHook(E, f.m_targetAddress)
         IN  IF R.status = MH_OK
             THEN FRes(R.E, [f EXCEPT !.m_enabled = FALSE], TRUE, R.status, R.trace)
             ELSE FRes(R.E, f, FALSE, R.status, R.trace)

FunctionHook_remove(E, f) ==
    IF ~f.m_installed THEN FRes(E, f, TRUE, NoStatus, <<>>)
    ELSE LET D == IF f.m_enabled THEN FunctionHook_disable(E, f)
                  ELSE FRes(E, f, TRUE, NoStatus, <<>>)
             R == removeHook(D.E, f.m_targetAddress)
         IN  IF R.status = MH_OK
             THEN FRes(R.E, [D.f EXCEPT !.m_installed = FALSE,
                                        !.m_originalFunction = 0],
                       TRUE, R.status, D.trace \o R.trace)
             ELSE FRes(R.E, D.f, FALSE, R.status, D.trace \o R.trace)

FunctionHook_destroy_NoRemove(E, f) ==
    FRes(E, NoObject, TRUE, NoStatus, <<>>)

\* FunctionHook::~FunctionHook(): remove() when installed; the object is gone.
FunctionHook_destroy(E, f) ==
    IF f.m_installed
    THEN LET R == FunctionHook_remove(E, f)
         IN  FRes(R.E, NoObject, R.ret, R.status, R.trace)
    ELSE FRes(E, NoObject, TRUE, NoStatus, <<>>)

(***************************************************************************)
(* The record of the last call: what was called with which arguments, the  *)
(* engine status and boolean result it gave, the table mutations it made   *)
(* in order, and what held of its target just before the call.             *)
(***************************************************************************)
Call(op, target, hook, obj, status, ret, trace, f) ==
    [op |-> op, target |-> target, hook |-> hook, obj |-> obj,
     status |-> status, ret |-> ret, trace |-> trace,
     wasInit |-> s_initialized,
     hadRecord |-> FindHook(s_hooks, target) # 0,
     wasEnabled |-> /\ FindHook(s_hooks, target) # 0
                    /\ s_hooks[FindHook(s_hooks, target)].enabled,
     wasInstalled |-> f.m_installed,
     wasOwnerEnabled |-> f.m_enabled]

SetEngine(E) ==
    /\ s_initialized' = E.initialized
    /\ s_lastError' = E.lastError
    /\ s_hooks' = E.hooks

\* A call of a static MinHookWrapper function by the controller.
EngineCall(op, target, hook, R) ==
    /\ SetEngine(R.E)
    /\ last' = Call(op, target, hook, 0, R.status, R.status = MH_OK, R.trace, NoObject)
    /\ UNCHANGED <<fhooks, concVars, scanVars>>

\* A call of a FunctionHook member on object o by the controller.
OwnerCall(op, o, R) ==
    /\ SetEngine(R.E)
    /\ fhooks' = [fhooks EXCEPT ![o] = R.f]
    /\ last' = Call(op, fhooks[o].m_targetAddress, fhooks[o].m_hookFunction, o,
                    R.status, R.ret, R.trace, fhooks[o])
    /\ UNCHANGED <<concVars, scanVars>>

Initialize == EngineCall("initialize", 0, 0, initialize(Engine))

Uninitialize == EngineCall("uninitialize", 0, 0, uninitialize(Engine))

\* The four table operations, called with arguments drawn from Args (pairs
\* of target and routine) or T (targets).
CreateHook(Args) ==
    \E a \in Args :
        EngineCall("createHook", a[1], a[2], createHook(Engine, a[1], a[2]))

EnableHook(T) ==
    \E t \in T : EngineCall("enableHook", t, 0, enableHook(Engine, t))

DisableHook(T) ==
    \E t \in T : EngineCall("disableHook", t, 0, disableHook(Engine, t))

RemoveHook(T) ==
    \E t \in T : EngineCall("removeHook", t, 0, removeHook(Engine, t))

\* std::make_unique<FunctionHook>(address, hookFunction)
Construct(Args) ==
    \E o \in Objects, a \in Args :
        /\ ~fhooks[o].alive
        /\ fhooks' = [fhooks EXCEPT ![o] = FunctionHook(a[1], a[2])]
        /\ last' = Call("FunctionHook", a[1], a[2], o, NoStatus, TRUE, <<>>, NoObject)
        /\ UNCHANGED <<s_initialized, s_lastError, s_hooks, concVars, scanVars>>

Install ==
    \E o \in Objects :
        /\ fhooks[o].alive
        /\ OwnerCall("install", o, FunctionHook_install(Engine, fhooks[o]))

Enable ==
    \E o \in Objects :
        /\ fhooks[o].alive
        /\ OwnerCall("enable", o, FunctionHook_enable(Engine, fhooks[o]))

Disable ==
    \E o \in Objects :
        /\ fhooks[o].alive
        /\ OwnerCall("disable", o, FunctionHook_disable(Engine, fhooks[o]))

Remove ==
    \E o \in Objects :
        /\ fhooks[o].alive
        /\ OwnerCall("remove", o, FunctionHook_remove(Engine, fhooks[o]))

Destroy ==
    \E o \in Objects :
        /\ fhooks[o].alive
        /\ OwnerCall("~FunctionHook", o, FunctionHook_destroy(Engine, fhooks[o]))

NoCall == [op |-> "none", target |-> 0, hook |-> 0, obj |-> 0,
           status |-> NoStatus, ret |-> TRUE, trace |-> <<>>,
           wasInit |-> FALSE, hadRecord |-> FALSE, wasEnabled |-> FALSE,
           wasInstalled |-> FALSE, wasOwnerEnabled |-> FALSE]

(***************************************************************************)
(* The scanSingle call in progress and what is observed of it.             *)
(***************************************************************************)
\* PatternResult(addr = 0): address and matchedBytes (patternName left out).
PatternResult(addr) == [address |-> addr, matchedBytes |-> <<>>]

IdleScan == [pc |-> "idle", pattern |-> Pattern(<<>>, <<>>), start |-> 0,
             size |-> 0, algo |-> "none", memory |-> <<>>, i |-> 0,
             ret |-> FALSE, result |-> PatternResult(0)]

\* reads: the calls of readMemory made by the scan; atRead: the target's
\* bytes at [start, start + size) at the instant of the read.
IdleProbe == [reads |-> 0, atRead |-> <<>>]

\* No Pattern or scanner function has been called yet.
NoApiCall == [op |-> "none"]

\* A controller thread that is in no table operation.
IdleThread == [pc |-> "idle", op |-> "none", target |-> 0, hook |-> 0,
               it |-> 0, stale |-> FALSE]
IdleThreads == [t \in Threads |-> IdleThread]

Init ==
    /\ s_initialized = FALSE
    /\ s_lastError = ""
    /\ s_hooks = <<>>
    /\ fhooks = [o \in Objects |-> NoObject]
    /\ last = NoCall
    /\ threads = IdleThreads
    /\ regions = MockMemory
    /\ scan = IdleScan
    /\ probe = IdleProbe
    /\ m_useBoyerMoore = TRUE
    /\ api = NoApiCall

\* Direct callers of the static engine.
Next ==
    \/ Initialize
    \/ Uninitialize
    \/ CreateHook(EngineArgs)
    \/ EnableHook(Targets)
    \/ DisableHook(Targets)
    \/ RemoveHook(Targets)

Spec == Init /\ [][Next]_vars

\* The console: FunctionHook objects and its own engine calls.
NextOwner ==
    \/ Initialize
    \/ Uninitialize
    \/ CreateHook(ConsoleArgs)
    \/ EnableHook(Addrs)
    \/ DisableHook(Addrs)
    \/ RemoveHook(Addrs)
    \/ Construct(ConsoleArgs)
    \/ Install
    \/ Enable
    \/ Disable
    \/ Remove
    \/ Destroy

SpecOwner == Init /\ [][NextOwner]_vars


(***************************************************************************)
(* Which engine function the last call reached.  A FunctionHook member     *)
(* that returned before calling the engine has status NoStatus.            *)
(***************************************************************************)
IsCreate(l) == l.op = "createHook" \/ (l.op = "install" /\ l.status # NoStatus)
IsEnable(l) == l.op = "enableHook" \/ (l.op = "enable" /\ l.status # NoStatus)
IsDisable(l) == l.op = "disableHook" \/ (l.op = "disable" /\ l.status # NoStatus)
IsRemove(l) ==
    l.op = "removeHook" \/ (l.op \in {"remove", "~FunctionHook"} /\ l.status # NoStatus)

HasRecord(hooks, t) == FindHook(hooks, t) # 0
RecordOf(hooks, t) == hooks[FindHook(hooks, t)]
OtherRecords(hooks, t) == SelectSeq(hooks, LAMBDA r : r.targetAddress # t)

\* C1: the hook table holds at most one record for any target address.
C1_OneRecordPerTarget ==
    \A j, k \in 1..Len(s_hooks) :
        s_hooks[j].targetAddress = s_hooks[k].targetAddress => j = k

\* A create was attempted on a target that had a record, and the table holds
\* records of two targets.
C1_Witness ==
    /\ IsCreate(last)
    /\ last.hadRecord
    /\ Len(s_hooks) = 2

\* C2: createHook on a target that has a record returns AlreadyCreated and
\* leaves the table, hence that record's hookFunction and enabled flag, as
\* it was, with exactly one record for the target.
C2_InstallTwice ==
    [][(IsCreate(last') /\ HasRecord(s_hooks, last'.target)) =>
          /\ last'.status = MH_ERROR_ALREADY_CREATED
          /\ s_hooks' = s_hooks
          /\ RecordsFor(s_hooks', last'.target) = 1]_vars

\* A second create with another routine on a target whose record is enabled.
C2_Witness ==
    /\ last.op = "createHook"
    /\ last.status = MH_ERROR_ALREADY_CREATED
    /\ HasRecord(s_hooks, last.target)
    /\ RecordOf(s_hooks, last.target).hookFunction # last.hook
    /\ RecordOf(s_hooks, last.target).enabled

\* C3: a create that reports a status other than Ok adds no record and
\* leaves the calling FunctionHook not installed with originalFunction 0;
\* the table grows only in a create that reports Ok.
C3_InstallTransactional ==
    [][/\ (IsCreate(last') /\ last'.status # MH_OK) =>
             /\ s_hooks' = s_hooks
             /\ last'.op = "install" =>
                   /\ ~fhooks'[last'.obj].m_installed
                   /\ fhooks'[last'.obj].m_originalFunction = 0
       /\ Len(s_hooks') > Len(s_hooks) =>
             /\ IsCreate(last')
             /\ last'.status = MH_OK
             /\ Len(s_hooks') = Len(s_hooks) + 1]_vars

\* An install by a FunctionHook failed on a target that has a record.
C3_Witness ==
    /\ last.op = "install"
    /\ last.status = MH_ERROR_ALREADY_CREATED
    /\ ~fhooks[last.obj].m_installed
    /\ HasRecord(s_hooks, last.target)

\* C4 as stated: enableHook returns NotCreated when the target has no
\* record and AlreadyEnabled when its record is enabled, the table unchanged
\* in both cases; otherwise it enables the record and returns Ok.
C4_EnableAsStated ==
    [][IsEnable(last') =>
          IF ~HasRecord(s_hooks, last'.target)
          THEN last'.status = MH_ERROR_NOT_CREATED /\ s_hooks' = s_hooks
          ELSE IF RecordOf(s_hooks, last'.target).enabled
          THEN last'.status = MH_ERROR_ENABLED /\ s_hooks' = s_hooks
          ELSE /\ last'.status = MH_OK
               /\ s_hooks' = [s_hooks EXCEPT
                                 ![FindHook(s_hooks, last'.target)].enabled = TRUE]]_vars

\* C4 amended: on an engine that is not initialized enableHook returns
\* NotInitialized and leaves the table unchanged; on an initialized engine
\* it behaves as stated.
C4_Enable ==
    [][IsEnable(last') =>
          IF ~s_initialized
          THEN last'.status = MH_ERROR_NOT_INITIALIZED /\ s_hooks' = s_hooks
          ELSE IF ~HasRecord(s_hooks, last'.target)
          THEN last'.status = MH_ERROR_NOT_CREATED /\ s_hooks' = s_hooks
          ELSE IF RecordOf(s_hooks, last'.target).enabled
          THEN last'.status = MH_ERROR_ENABLED /\ s_hooks' = s_hooks
          ELSE /\ last'.status = MH_OK
               /\ s_hooks' = [s_hooks EXCEPT
                                 ![FindHook(s_hooks, last'.target)].enabled = TRUE]]_vars

\* enableHook called on a target whose record is already enabled.
C4_Witness ==
    /\ last.op = "enableHook"
    /\ last.wasEnabled
    /\ last.status = MH_ERROR_ENABLED
    /\ RecordOf(s_hooks, last.target).enabled

\* C5 as stated: disableHook returns NotCreated when the target has no
\* record and AlreadyDisabled when its record is not enabled, the table
\* unchanged; otherwise it clears the enabled flag of that record only.
C5_DisableAsStated ==
    [][IsDisable(last') =>
          IF ~HasRecord(s_hooks, last'.target)
          THEN last'.status = MH_ERROR_NOT_CREATED /\ s_hooks' = s_hooks
          ELSE IF ~RecordOf(s_hooks, last'.target).enabled
          THEN last'.status = MH_ERROR_DISABLED /\ s_hooks' = s_hooks
          ELSE /\ last'.status = MH_OK
               /\ s_hooks' = [s_hooks EXCEPT
                                 ![FindHook(s_hooks, last'.target)].enabled = FALSE]]_vars

\* C5 amended: on an engine that is not initialized disableHook returns
\* NotInitialized and leaves the table unchanged; on an initialized engine
\* it behaves as stated.
C5_Disable ==
    [][IsDisable(last') =>
          IF ~s_initialized
          THEN last'.status = MH_ERROR_NOT_INITIALIZED /\ s_hooks' = s_hooks
          ELSE IF ~HasRecord(s_hooks, last'.target)
          THEN last'.status = MH_ERROR_NOT_CREATED /\ s_hooks' = s_hooks
          ELSE IF ~RecordOf(s_hooks, last'.target).enabled
          THEN last'.status = MH_ERROR_DISABLED /\ s_hooks' = s_hooks
          ELSE /\ last'.status = MH_OK
               /\ s_hooks' = [s_hooks EXCEPT
                                 ![FindHook(s_hooks, last'.target)].enabled = FALSE]]_vars

\* disableHook succeeded on one target while the record of another target
\* stays enabled.
C5_Witness ==
    /\ last.op = "disableHook"
    /\ last.wasEnabled
    /\ last.status = MH_OK
    /\ ~RecordOf(s_hooks, last.target).enabled
    /\ \E k \in 1..Len(s_hooks) : s_hooks[k].enabled

\* C6 as stated: removeHook returns NotCreated when the target has no
\* record; otherwise it returns Ok, an enabled record is disabled before it
\* is erased, no record for the target is left and the records of the other
\* targets are unchanged.
C6_RemoveAsStated ==
    [][IsRemove(last') =>
          IF ~HasRecord(s_hooks, last'.target)
          THEN last'.status = MH_ERROR_NOT_CREATED /\ s_hooks' = s_hooks
          ELSE /\ last'.status = MH_OK
               /\ last'.trace = IF RecordOf(s_hooks, last'.target).enabled
                                THEN <<"disable", "erase">> ELSE <<"erase">>
               /\ RecordsFor(s_hooks', last'.target) = 0
               /\ OtherRecords(s_hooks', last'.target)
                     = OtherRecords(s_hooks, last'.target)
               /\ Len(s_hooks') = Len(s_hooks) - 1]_vars

\* C6 amended: on an engine that is not initialized removeHook returns
\* NotInitialized and leaves the table unchanged; on an initialized engine
\* it behaves as stated.
C6_Remove ==
    [][IsRemove(last') =>
          IF ~s_initialized
          THEN last'.status = MH_ERROR_NOT_INITIALIZED /\ s_hooks' = s_hooks
          ELSE IF ~HasRecord(s_hooks, last'.target)
          THEN last'.status = MH_ERROR_NOT_CREATED /\ s_hooks' = s_hooks
          ELSE /\ last'.status = MH_OK
               /\ last'.trace = IF RecordOf(s_hooks, last'.target).enabled
                                THEN <<"disable", "erase">> ELSE <<"erase">>
               /\ RecordsFor(s_hooks', last'.target) = 0
               /\ OtherRecords(s_hooks', last'.target)
                     = OtherRecords(s_hooks, last'.target)
               /\ Len(s_hooks') = Len(s_hooks) - 1]_vars

\* A remove of an enabled record, not disabled by the caller, succeeded and
\* the record of another target is still in the table.
C6_Witness ==
    /\ IsRemove(last)
    /\ last.wasEnabled
    /\ last.status = MH_OK
    /\ last.trace = <<"disable", "erase">>
    /\ ~HasRecord(s_hooks, last.target)
    /\ Len(s_hooks) = 1

\* C7: after the destruction of a FunctionHook that was installed, the table
\* holds no record for its target.
C7_DestroyLeavesNoRecord ==
    (last.op = "~FunctionHook" /\ last.wasInstalled) =>
        RecordsFor(s_hooks, last.target) = 0

\* An installed FunctionHook whose record was enabled has been destroyed.
C7_Witness ==
    /\ last.op = "~FunctionHook"
    /\ last.wasInstalled
    /\ last.wasEnabled
    /\ last.status = MH_OK
    /\ ~fhooks[last.obj].alive


(***************************************************************************)
(* Two or more controller threads calling the four table operations.  The  *)
(* functions take no lock, so a call is a sequence of steps on the shared  *)
(* static members: the s_initialized test with find_if (Find), the tests   *)
(* on the iterator with the mutation (Act), and for removeHook the erase   *)
(* (Erase).  The engine is initialized and torn down by the controller     *)
(* while no thread is inside an operation.  Thread t passes routine        *)
(* RoutineOf(t) to createHook.                                             *)
(***************************************************************************)
RoutineOf(t) == ((t - 1) % MaxRoutine) + 1

\* The positions an iterator obtained by thread t may refer to when it is
\* used.  While the vector was neither grown nor shrunk since find_if it is
\* the position found.  After a push_back or erase by another thread the
\* iterator is invalid and its use is undefined: it may hit any record of the
\* vector as it now is, or none (0).
Deref(t) ==
    IF threads[t].stale THEN 0..Len(s_hooks) ELSE {threads[t].it}

TableOps == {"createHook", "enableHook", "disableHook", "removeHook"}

Begin(t) ==
    /\ threads[t].pc = "idle"
    /\ \E op \in TableOps, target \in Targets :
          threads' = [threads EXCEPT ![t] =
                         [IdleThread EXCEPT !.pc = "entry", !.op = op,
                                            !.target = target,
                                            !.hook = IF op = "createHook"
                                                     THEN RoutineOf(t) ELSE 0]]
    /\ UNCHANGED <<hookVars, scanVars>>

\* The return of thread t; resized tells whether it grew or shrank the
\* vector, which invalidates the iterators the other threads hold.
Finish(t, resized, err) ==
    /\ threads' = [u \in Threads |->
                      IF u = t THEN IdleThread
                      ELSE IF resized /\ threads[u].pc \in {"found", "erase"}
                      THEN [threads[u] EXCEPT !.stale = TRUE]
                      ELSE threads[u]]
    /\ s_lastError' = err

\* if (!s_initialized) ...; auto it = std::find_if(...)
Find(t) ==
    /\ threads[t].pc = "entry"
    /\ IF ~s_initialized
       THEN Finish(t, FALSE, "MinHook not initialized")
       ELSE /\ threads' = [threads EXCEPT
                              ![t].pc = "found",
                              ![t].it = FindHook(s_hooks, threads[t].target)]
            /\ UNCHANGED s_lastError
    /\ UNCHANGED <<s_initialized, s_hooks, fhooks, last, scanVars>>

\* createHook from the test of the iterator to the return.
ActCreate(t) ==
    IF threads[t].it # 0
    THEN /\ Finish(t, FALSE, "Hook already exists for this address")
         /\ UNCHANGED s_hooks
    ELSE /\ s_hooks' = Append(s_hooks,
                [HookInfo(threads[t].target, threads[t].hook)
                    EXCEPT !.originalFunction = threads[t].target])
         /\ Finish(t, TRUE, "Hook created successfully (mock)")

\* enableHook (flag = TRUE) and disableHook (flag = FALSE) from the test of
\* the iterator to the return.
ActSetEnabled(t, flag) ==
    IF threads[t].it = 0
    THEN /\ Finish(t, FALSE, "Hook not found")
         /\ UNCHANGED s_hooks
    ELSE \E k \in Deref(t) :
            IF k # 0 /\ s_hooks[k].enabled = flag
            THEN /\ Finish(t, FALSE, IF flag THEN "Hook already enabled"
                                     ELSE "Hook already disabled")
                 /\ UNCHANGED s_hooks
            ELSE /\ s_hooks' = IF k = 0 THEN s_hooks
                               ELSE [s_hooks EXCEPT ![k].enabled = flag]
                 /\ Finish(t, FALSE, IF flag THEN "Hook enabled successfully (mock)"
                                     ELSE "Hook disabled successfully (mock)")

\* removeHook from the test of the iterator to the call of erase: an
\* enabled record is disabled through a nested disableHook(target).
ActRemove(t) ==
    IF threads[t].it = 0
    THEN /\ Finish(t, FALSE, "Hook not found")
         /\ UNCHANGED s_hooks
    ELSE \E k \in Deref(t) :
            LET D == IF k # 0 /\ s_hooks[k].enabled
                     THEN disableHook(Engine, threads[t].target)
                     ELSE Res(Engine, NoStatus, <<>>)
            IN  /\ s_hooks' = D.E.hooks
                /\ s_lastError' = D.E.lastError
                /\ threads' = [threads EXCEPT ![t].pc = "erase"]

Act(t) ==
    /\ threads[t].pc = "found"
    /\ CASE threads[t].op = "createHook" -> ActCreate(t)
         [] threads[t].op = "enableHook" -> ActSetEnabled(t, TRUE)
         [] threads[t].op = "disableHook" -> ActSetEnabled(t, FALSE)
         [] threads[t].op = "removeHook" -> ActRemove(t)
    /\ UNCHANGED <<s_initialized, fhooks, last, scanVars>>

\* s_hooks.erase(it) and the return of removeHook.
Erase(t) ==
    /\ threads[t].pc = "erase"
    /\ \E k \in Deref(t) :
          /\ s_hooks' = IF k = 0 THEN s_hooks ELSE EraseAt(s_hooks, k)
          /\ Finish(t, k # 0, "Hook removed successfully")
    /\ UNCHANGED <<s_initialized, fhooks, last, scanVars>>

AllIdle == \A t \in Threads : threads[t].pc = "idle"

\* ConsoleUI::ConsoleUI calls initialize before any command runs.
ControllerInitialize ==
    /\ AllIdle
    /\ SetEngine(initialize(Engine).E)
    /\ UNCHANGED <<fhooks, last, concVars, scanVars>>

\* ConsoleUI::~ConsoleUI calls uninitialize after the last command.
ControllerUninitialize ==
    /\ AllIdle
    /\ SetEngine(uninitialize(Engine).E)
    /\ UNCHANGED <<fhooks, last, concVars, scanVars>>

NextConc ==
    \/ ControllerInitialize
    \/ ControllerUninitialize
    \/ \E t \in Threads : Begin(t)
    \/ \E t \in Threads : Find(t)
    \/ \E t \in Threads : Act(t)
    \/ \E t \in Threads : Erase(t)

SpecConc == Init /\ [][NextConc]_vars

\* A thread is inside its find-then-mutate section from find_if to its last
\* use of the iterator or of the table.
InSection(t) == threads[t].pc \in {"found", "erase"}

\* C8: with two controller threads, at most one table operation is inside its
\* find-then-mutate section at a time, and two installs on the same target
\* never both append a record.
C8_TableOpsExclusive ==
    /\ Cardinality({t \in Threads : InSection(t)}) <= 1
    /\ C1_OneRecordPerTarget

\* What the missing lock lets happen: two records for one target.
C8_DuplicateRecord == ~C1_OneRecordPerTarget


(***************************************************************************)
(* PatternScanner::scanSingle over the provider, step by step.  The        *)
(* provider pointer is never null: main hands the scanner a provider.      *)
(***************************************************************************)
\* The byte of the target's memory at an address, -1 where nothing is mapped.
ByteAt(regs, a) ==
    IF \E b \in DOMAIN regs : a >= b /\ a < b + Len(regs[b])
    THEN LET b == CHOOSE c \in DOMAIN regs : a >= c /\ a < c + Len(regs[c])
         IN  regs[b][a - b + 1]
    ELSE -1

LiveAt(regs, start, size) == [k \in 1..size |-> ByteAt(regs, start + k - 1)]

WindowOf_Live(memory, i, n) == LiveAt(regions, scan.start + i, n)

\* &memory[i] and memory.begin() + i .. memory.begin() + i + patternSize:
\* the patternSize bytes of the local copy from offset i.
WindowOf(memory, i, n) == SubSeq(memory, i + 1, i + n)

LastOffset_OffByOne(memory, patternSize) == Len(memory) - patternSize - 1

\* memory.size() - patternSize, the last offset the loop of naiveScan tries.
LastOffset(memory, patternSize) == Len(memory) - patternSize

ScanDone(ret) == [scan EXCEPT !.pc = "done", !.ret = ret]

TooShort_Unchecked(memory, patternSize) == FALSE

\* if (patternSize > memory.size()) return false;
TooShort(memory, patternSize) == patternSize > Len(memory)

\* scanSingle up to the dispatch on m_useBoyerMoore; boyerMooreScan calls
\* naiveScan with the same arguments.
ScanSingle(Pats) ==
    /\ scan.pc = "idle"
    /\ \E p \in Pats, start \in Addresses, size \in Sizes :
          LET call == [IdleScan EXCEPT !.pattern = p, !.start = start, !.size = size]
          IN  scan' = IF ~isValidAddress(regions, start)
                      THEN [call EXCEPT !.pc = "done", !.ret = FALSE]
                      ELSE [call EXCEPT !.pc = "read",
                                        !.algo = IF m_useBoyerMoore
                                                 THEN "boyerMooreScan"
                                                 ELSE "naiveScan"]
    /\ probe' = IdleProbe
    /\ UNCHANGED <<regions, m_useBoyerMoore, api, hookVars, concVars>>

\* naiveScan from readMemoryRegion to the start of the loop.
ReadRegion ==
    /\ scan.pc = "read"
    /\ LET memory == readMemoryRegion(regions, scan.start, scan.size)
       IN  scan' = IF memory = <<>> THEN ScanDone(FALSE)
                   ELSE IF TooShort(memory, PatternSize(scan.pattern))
                   THEN [ScanDone(FALSE) EXCEPT !.memory = memory]
                   ELSE [scan EXCEPT !.pc = "match", !.memory = memory, !.i = 0]
    /\ probe' = [reads |-> probe.reads + 1,
                 atRead |-> LiveAt(regions, scan.start, scan.size)]
    /\ UNCHANGED <<regions, m_useBoyerMoore, api, hookVars, concVars>>

\* One test of the loop condition of naiveScan and, when it holds, one
\* iteration at offset i.
MatchStep ==
    /\ scan.pc = "match"
    /\ LET n == PatternSize(scan.pattern)
           data == WindowOf(scan.memory, scan.i, n)
       IN  scan' = IF scan.i > LastOffset(scan.memory, n) THEN ScanDone(FALSE)
                   ELSE IF matches(scan.pattern, data)
                   THEN [ScanDone(TRUE) EXCEPT
                            !.result = [address |-> scan.start + scan.i,
                                        matchedBytes |-> data]]
                   ELSE [scan EXCEPT !.i = scan.i + 1]
    /\ UNCHANGED <<regions, probe, m_useBoyerMoore, api, hookVars, concVars>>

\* The caller takes the result; the scanner is ready for the next call.
ScanReturn ==
    /\ scan.pc = "done"
    /\ scan' = IdleScan
    /\ probe' = IdleProbe
    /\ UNCHANGED <<regions, m_useBoyerMoore, api, hookVars, concVars>>

\* PatternScanner::setUseBoyerMoore
SetUseBoyerMoore ==
    /\ scan.pc = "idle"
    /\ \E b \in BOOLEAN : b # m_useBoyerMoore /\ m_useBoyerMoore' = b
    /\ UNCHANGED <<regions, scan, probe, api, hookVars, concVars>>

\* The target process stores a byte somewhere in its module region.
TargetWrite ==
    /\ \E k \in 1..ModuleSize, v \in Bytes :
          /\ regions[ModuleBase][k] # v
          /\ regions' = [regions EXCEPT ![ModuleBase][k] = v]
    /\ UNCHANGED <<scan, probe, m_useBoyerMoore, api, hookVars, concVars>>

\* The scanner is constructed over a provider whose module region holds any
\* bytes and whose heap region is zero-filled, as the mock's is.
InitScan ==
    /\ s_initialized = FALSE
    /\ s_lastError = ""
    /\ s_hooks = <<>>
    /\ fhooks = [o \in Objects |-> NoObject]
    /\ last = NoCall
    /\ threads = IdleThreads
    /\ \E module \in SeqsOfLen(Bytes, ModuleSize) :
          regions = [MockMemory EXCEPT ![ModuleBase] = module]
    /\ scan = IdleScan
    /\ probe = IdleProbe
    /\ m_useBoyerMoore = TRUE
    /\ api = NoApiCall

\* Scans of a target at rest, with either setting of m_useBoyerMoore.
NextScan ==
    \/ ScanSingle(Patterns)
    \/ ReadRegion
    \/ MatchStep
    \/ ScanReturn
    \/ SetUseBoyerMoore

SpecScan == InitScan /\ [][NextScan]_vars

\* Scans of a target that runs and writes its memory meanwhile.  The
\* program never calls setUseBoyerMoore: the flag keeps its initial value.
NextLive ==
    \/ ScanSingle(LivePatterns)
    \/ ReadRegion
    \/ MatchStep
    \/ ScanReturn
    \/ TargetWrite

SpecLive == InitScan /\ [][NextLive]_vars

\* The offsets of snapshot S at which pattern p matches.
MatchOffsets(p, S) ==
    {i \in 0..(Len(S) - PatternSize(p)) :
        matches(p, SubSeq(S, i + 1, i + PatternSize(p)))}

Lowest(S) == CHOOSE i \in S : \A j \in S : i <= j

\* C9: a scan reads the region from the provider once, before the first
\* comparison, and a match it reports lies in the bytes the target held at
\* the instant of that read: the bytes reported are those bytes and the
\* pattern matches them, whatever the target wrote afterwards.
C9_SnapshotOnly ==
    /\ scan.pc = "match" => probe.reads = 1
    /\ scan.pc = "done" => probe.reads <= 1
    /\ (scan.pc = "done" /\ scan.ret) =>
          LET off == scan.result.address - scan.start
              n == PatternSize(scan.pattern)
          IN  /\ probe.reads = 1
              /\ off \in 0..(scan.size - n)
              /\ scan.result.matchedBytes = SubSeq(probe.atRead, off + 1, off + n)
              /\ matches(scan.pattern, SubSeq(probe.atRead, off + 1, off + n))

\* A match was reported although the target has meanwhile overwritten the
\* matched bytes so that the pattern no longer matches there.
C9_Witness ==
    /\ scan.pc = "done"
    /\ scan.ret
    /\ PatternSize(scan.pattern) >= 1
    /\ ~matches(scan.pattern,
                LiveAt(regions, scan.result.address, PatternSize(scan.pattern)))

\* C10: for a snapshot S that was read (the read returned bytes) and a
\* pattern P no longer than S, scanSingle returns true iff P matches S at
\* some offset i in 0..len(S)-len(P), and then reports start + i for the
\* lowest such i together with the bytes of S there.
C10_FirstMatch ==
    (/\ scan.pc = "done"
     /\ scan.memory # <<>>
     /\ PatternSize(scan.pattern) <= Len(scan.memory)) =>
        /\ scan.ret <=> MatchOffsets(scan.pattern, scan.memory) # {}
        /\ scan.ret =>
              LET i == Lowest(MatchOffsets(scan.pattern, scan.memory))
              IN  /\ scan.result.address = scan.start + i
                  /\ scan.result.matchedBytes
                        = SubSeq(scan.memory, i + 1, i + PatternSize(scan.pattern))

\* A match found at an offset above 0 that is not the only one: the pattern
\* matches the snapshot at a higher offset too.
C10_Witness ==
    /\ scan.pc = "done"
    /\ scan.ret
    /\ scan.result.address > scan.start
    /\ Cardinality(MatchOffsets(scan.pattern, scan.memory)) >= 2
    /\ \E k \in 1..PatternSize(scan.pattern) : scan.pattern.m_mask[k]


(***************************************************************************)
(* Pattern as text.  A string is a sequence of one-character strings.      *)
(* Pattern(patternString) splits the string at whitespace (iss >> token)   *)
(* and converts every token that is not "??" with std::stoul(token,        *)
(* nullptr, 16), cast to uint8_t.                                          *)
(***************************************************************************)
MaxTextLen == 5

\* The characters the strings given to the text constructor are made of.
Chars == {"0", "1", "A", "f", "G", "x", "?", " "}
Texts == UNION {SeqsOfLen(Chars, n) : n \in 0..MaxTextLen}

\* The digits operator<< writes under std::hex.
HexDigits == <<"0", "1", "2", "3", "4", "5", "6", "7",
               "8", "9", "a", "b", "c", "d", "e", "f">>
UpperHexDigits == <<"0", "1", "2", "3", "4", "5", "6", "7",
                    "8", "9", "A", "B", "C", "D", "E", "F">>

\* The value of a hexadecimal digit as strtoul reads it, -1 for another
\* character.
HexValue(c) ==
    IF \E v \in 1..16 : HexDigits[v] = c
    THEN (CHOOSE v \in 1..16 : HexDigits[v] = c) - 1
    ELSE IF \E v \in 1..16 : UpperHexDigits[v] = c
    THEN (CHOOSE v \in 1..16 : UpperHexDigits[v] = c) - 1
    ELSE -1

IsHexDigitAt(token, k) == k <= Len(token) /\ HexValue(token[k]) >= 0

\* iss >> token, repeated: the maximal runs of non-whitespace characters.
RECURSIVE Tokenize(_, _, _)
Tokenize(text, k, token) ==
    IF k > Len(text) THEN (IF token = <<>> THEN <<>> ELSE <<token>>)
    ELSE IF text[k] = " "
    THEN (IF token = <<>> THEN <<>> ELSE <<token>>) \o Tokenize(text, k + 1, <<>>)
    ELSE Tokenize(text, k + 1, Append(token, text[k]))

\* The value of the longest run of hexadecimal digits of token from k on,
\* continuing acc.
RECURSIVE HexRun(_, _, _)
HexRun(token, k, acc) ==
    IF IsHexDigitAt(token, k)
    THEN HexRun(token, k + 1, acc * 16 + HexValue(token[k]))
    ELSE acc

\* std::stoul(token, nullptr, 16) cast to uint8_t: an optional sign, an
\* optional 0x or 0X before a digit, then the longest run of hexadecimal
\* digits; what follows the run is ignored.  No digit: invalid_argument.  A
\* value above ULONG_MAX (out_of_range) needs more than 16 digits, more than
\* a string of MaxTextLen characters holds.
stoul(token) ==
    LET signed == Len(token) >= 1 /\ token[1] \in {"+", "-"}
        d == IF signed THEN 2 ELSE 1
        prefixed == /\ Len(token) >= d + 1
                    /\ token[d] = "0"
                    /\ token[d + 1] \in {"x", "X"}
                    /\ IsHexDigitAt(token, d + 2)
        first == IF prefixed THEN d + 2 ELSE d
        value == HexRun(token, first, 0)
    IN  IF ~IsHexDigitAt(token, first) THEN [ok |-> FALSE, byte |-> 0]
        ELSE [ok |-> TRUE,
              byte |-> IF signed /\ token[1] = "-"
                       THEN (256 - (value % 256)) % 256
                       ELSE value % 256]

Wildcard == <<"?", "?">>

\* The loop of parsePatternString from token k on, p being m_bytes and
\* m_mask so far: the exception leaves no Pattern.
RECURSIVE ParseTokens(_, _, _)
ParseTokens(tokens, k, p) ==
    IF k > Len(tokens)
    THEN (IF p.m_bytes = <<>>
          THEN [ok |-> FALSE, error |-> "Pattern string cannot be empty"]
          ELSE [ok |-> TRUE, pattern |-> p])
    ELSE IF tokens[k] = Wildcard
    THEN ParseTokens(tokens, k + 1,
                     Pattern(Append(p.m_bytes, 0), Append(p.m_mask, FALSE)))
    ELSE IF stoul(tokens[k]).ok
    THEN ParseTokens(tokens, k + 1,
                     Pattern(Append(p.m_bytes, stoul(tokens[k]).byte),
                             Append(p.m_mask, TRUE)))
    ELSE [ok |-> FALSE, error |-> "Invalid pattern token"]

parsePatternString(patternString) ==
    ParseTokens(Tokenize(patternString, 1, <<>>), 1, Pattern(<<>>, <<>>))

\* Pattern::Pattern(patternString, name)
Pattern_fromString(patternString) == parsePatternString(patternString)

\* Pattern::Pattern(bytes, mask, name): throws when the sizes differ.
Pattern_fromBytes(bytes, mask) ==
    IF Len(bytes) # Len(mask)
    THEN [ok |-> FALSE, error |-> "Byte array and mask must have same size"]
    ELSE [ok |-> TRUE, pattern |-> Pattern(bytes, mask)]

\* std::hex << std::setw(2) << std::setfill('0') << int(byte)
HexByte(byte) == <<HexDigits[(byte \div 16) + 1], HexDigits[(byte % 16) + 1]>>

\* Pattern::toString from position k on.
RECURSIVE ToStringFrom(_, _)
ToStringFrom(p, k) ==
    IF k > Len(p.m_bytes) THEN <<>>
    ELSE (IF k > 1 THEN <<" ">> ELSE <<>>)
         \o (IF p.m_mask[k] THEN HexByte(p.m_bytes[k]) ELSE Wildcard)
         \o ToStringFrom(p, k + 1)

toString(p) == ToStringFrom(p, 1)

\* The byte and mask vectors given to the byte/mask constructor.
ByteVectors == UNION {SeqsOfLen(Bytes, n) : n \in 0..MaxPatternLen}
MaskVectors == UNION {SeqsOfLen(BOOLEAN, n) : n \in 0..MaxPatternLen}

CtorOps == {"Pattern(string)", "Pattern(bytes,mask)"}

\* A Pattern object exists: the last constructor call returned.
Constructed == api.op \in CtorOps /\ api.ok

ApiCall(call) ==
    /\ api' = call
    /\ UNCHANGED <<regions, scan, probe, m_useBoyerMoore, hookVars, concVars>>

\* The arguments a caller holds for one of the two constructors.
PatternInputs ==
    {[op |-> "string", text |-> text] : text \in Texts}
    \cup {[op |-> "vectors", bytes |-> bytes, mask |-> mask] :
              bytes \in ByteVectors, mask \in MaskVectors}

ParsePattern ==
    /\ api.op = "string"
    /\ LET R == Pattern_fromString(api.text)
       IN  ApiCall([op |-> "Pattern(string)", text |-> api.text, ok |-> R.ok,
                    pattern |-> IF R.ok THEN R.pattern ELSE Pattern(<<>>, <<>>)])

ConstructPattern ==
    /\ api.op = "vectors"
    /\ LET R == Pattern_fromBytes(api.bytes, api.mask)
       IN  ApiCall([op |-> "Pattern(bytes,mask)", bytes |-> api.bytes,
                    mask |-> api.mask, ok |-> R.ok,
                    pattern |-> IF R.ok THEN R.pattern ELSE Pattern(<<>>, <<>>)])

\* toString of the Pattern just constructed, and the text constructor
\* applied to the string it gave.
RoundTrip ==
    /\ Constructed
    /\ LET text == toString(api.pattern)
           R == Pattern_fromString(text)
       IN  ApiCall([op |-> "toString", pattern |-> api.pattern, text |-> text,
                    ok |-> R.ok,
                    parsed |-> IF R.ok THEN R.pattern ELSE Pattern(<<>>, <<>>)])

\* matches(data) of the Pattern just constructed on a buffer that holds at
\* least size() bytes.
Matches ==
    /\ Constructed
    /\ \E n \in PatternSize(api.pattern)..(MaxPatternLen + 1) :
          \E data \in SeqsOfLen(Bytes, n) :
              ApiCall([op |-> "matches", pattern |-> api.pattern, data |-> data,
                       ret |-> matches(api.pattern, data)])

NextPattern ==
    \/ ParsePattern
    \/ ConstructPattern
    \/ RoundTrip
    \/ Matches

\* A caller about to construct a Pattern from the arguments it holds.
InitPattern ==
    /\ s_initialized = FALSE
    /\ s_lastError = ""
    /\ s_hooks = <<>>
    /\ fhooks = [o \in Objects |-> NoObject]
    /\ last = NoCall
    /\ threads = IdleThreads
    /\ regions = MockMemory
    /\ scan = IdleScan
    /\ probe = IdleProbe
    /\ m_useBoyerMoore = TRUE
    /\ api \in PatternInputs

SpecPattern == InitPattern /\ [][NextPattern]_vars

\* A token of exactly two hexadecimal digits.
IsHexByte(token) ==
    Len(token) = 2 /\ HexValue(token[1]) >= 0 /\ HexValue(token[2]) >= 0

\* The strings of the pattern grammar: one token or more, each a byte of two
\* hexadecimal digits or the wildcard marker.
WellFormed(text) ==
    LET tokens == Tokenize(text, 1, <<>>)
    IN  /\ tokens # <<>>
        /\ \A k \in 1..Len(tokens) : IsHexByte(tokens[k]) \/ tokens[k] = Wildcard

\* C11: the text constructor fails, and produces no Pattern, for every
\* string that yields no token or holds a token that is neither two
\* hexadecimal digits nor the wildcard marker.
C11_ParseRejects ==
    (api.op = "Pattern(string)" /\ ~WellFormed(api.text)) => ~api.ok

\* What the code does instead: a Pattern from a string with a token of one
\* digit, of three, with a 0x prefix or with trailing other characters.
C11_AcceptsMalformed ==
    /\ api.op = "Pattern(string)"
    /\ ~WellFormed(api.text)
    /\ api.ok

\* The positions of p that are fixed (mask true).
FixedPositions(p) == {k \in 1..PatternSize(p) : p.m_mask[k]}

\* C12: matches(B) is true iff B holds the pattern's byte at every fixed
\* position; neither the bytes of B at wildcard positions nor the bytes
\* stored in the pattern there have a part in it.
C12_MatchesFixedOnly ==
    api.op = "matches" =>
        (api.ret <=> \A k \in FixedPositions(api.pattern) :
                        api.data[k] = api.pattern.m_bytes[k])

\* A buffer longer than the pattern matched although it differs from the
\* stored byte at a wildcard position, a fixed position being equal.
C12_Witness ==
    /\ api.op = "matches"
    /\ api.ret
    /\ Len(api.data) > PatternSize(api.pattern)
    /\ FixedPositions(api.pattern) # {}
    /\ \E k \in 1..PatternSize(api.pattern) :
          ~api.pattern.m_mask[k] /\ api.data[k] # api.pattern.m_bytes[k]

\* C13: the string toString gives for a constructed Pattern parses, and to
\* a Pattern with the same bytes and the same mask.
C13_RoundTrip ==
    api.op = "toString" => (api.ok /\ api.parsed = api.pattern)

\* What the code does instead: the string of a non-empty Pattern parses to
\* the same mask but to other bytes, 0 at the wildcard positions.
C13_BytesLost ==
    /\ api.op = "toString"
    /\ PatternSize(api.pattern) >= 1
    /\ api.ok
    /\ api.parsed.m_mask = api.pattern.m_mask
    /\ api.parsed.m_bytes # api.pattern.m_bytes

\* C14: a Pattern that either constructor has constructed holds one byte or
\* more, and as many mask entries as bytes.
C14_NonEmpty ==
    Constructed =>
        /\ PatternSize(api.pattern) >= 1
        /\ Len(api.pattern.m_bytes) = Len(api.pattern.m_mask)

\* What the code does instead: the byte/mask constructor returns a Pattern
\* of size 0 for two empty vectors.
C14_EmptyConstructed ==
    /\ api.op = "Pattern(bytes,mask)"
    /\ api.ok
    /\ PatternSize(api.pattern) = 0


(***************************************************************************)
(* The scanner functions as functions of their arguments, of the           *)
(* provider's memory regs and of m_useBoyerMoore.  A call gives ret, the   *)
(* PatternResult the caller's reference holds afterwards, and reads, the   *)
(* number of calls of the provider's readMemory it made.                   *)
(***************************************************************************)
ScanOut(ret, result, reads) == [ret |-> ret, result |-> result, reads |-> reads]

\* The loop of naiveScan from offset i on: the lowest offset of a match, or
\* -1 when the loop ends without one.
RECURSIVE NaiveLoop(_, _, _)
NaiveLoop(pattern, memory, i) ==
    IF i > LastOffset(memory, PatternSize(pattern)) THEN -1
    ELSE IF matches(pattern, WindowOf(memory, i, PatternSize(pattern))) THEN i
    ELSE NaiveLoop(pattern, memory, i + 1)

naiveScan(regs, pattern, startAddress, size, result) ==
    LET memory == readMemoryRegion(regs, startAddress, size)
        i == NaiveLoop(pattern, memory, 0)
    IN  IF memory = <<>> THEN ScanOut(FALSE, result, 1)
        ELSE IF TooShort(memory, PatternSize(pattern)) THEN ScanOut(FALSE, result, 1)
        ELSE IF i = -1 THEN ScanOut(FALSE, result, 1)
        ELSE ScanOut(TRUE,
                     [address |-> startAddress + i,
                      matchedBytes |-> WindowOf(memory, i, PatternSize(pattern))],
                     1)

boyerMooreScan_FixedOnly(regs, pattern, startAddress, size, result) ==
    IF \A k \in 1..PatternSize(pattern) : pattern.m_mask[k]
    THEN naiveScan(regs, pattern, startAddress, size, result)
    ELSE ScanOut(FALSE, result, 1)

\* PatternScanner::boyerMooreScan: it uses the naive scan.
boyerMooreScan(regs, pattern, startAddress, size, result) ==
    naiveScan(regs, pattern, startAddress, size, result)

scanSingle(regs, useBoyerMoore, pattern, startAddress, size, result) ==
    IF ~isValidAddress(regs, startAddress) THEN ScanOut(FALSE, result, 0)
    ELSE IF useBoyerMoore
    THEN boyerMooreScan(regs, pattern, startAddress, size, result)
    ELSE naiveScan(regs, pattern, startAddress, size, result)

\* MockMemoryProvider::getModuleBase and getModuleSize over m_moduleBases and
\* m_moduleSizes: 0 for a name that was not added.
getModuleBase(m_moduleBases, moduleName) ==
    IF moduleName \in DOMAIN m_moduleBases THEN m_moduleBases[moduleName] ELSE 0

getModuleSize(m_moduleSizes, moduleName) ==
    IF moduleName \in DOMAIN m_moduleSizes THEN m_moduleSizes[moduleName] ELSE 0

scanModule_SizeUnchecked(regs, bases, sizes, useBoyerMoore, pattern, moduleName, result) ==
    IF getModuleBase(bases, moduleName) = 0 THEN ScanOut(FALSE, result, 0)
    ELSE scanSingle(regs, useBoyerMoore, pattern, getModuleBase(bases, moduleName),
                    getModuleSize(sizes, moduleName), result)

scanModule(regs, bases, sizes, useBoyerMoore, pattern, moduleName, result) ==
    LET baseAddress == getModuleBase(bases, moduleName)
        moduleSize == getModuleSize(sizes, moduleName)
    IN  IF baseAddress = 0 THEN ScanOut(FALSE, result, 0)
        ELSE IF moduleSize = 0 THEN ScanOut(FALSE, result, 0)
        ELSE scanSingle(regs, useBoyerMoore, pattern, baseAddress, moduleSize, result)

RECURSIVE scanMultiple_StopsAtMiss(_, _, _, _, _, _)
scanMultiple_StopsAtMiss(regs, useBoyerMoore, patterns, startAddress, size, k) ==
    IF k > Len(patterns) THEN <<>>
    ELSE LET R == scanSingle(regs, useBoyerMoore, patterns[k], startAddress, size,
                             PatternResult(0))
         IN  IF R.ret
             THEN <<R.result>> \o scanMultiple_StopsAtMiss(regs, useBoyerMoore, patterns,
                                                          startAddress, size, k + 1)
             ELSE <<>>

\* PatternScanner::scanMultiple from pattern k on: the results pushed.
RECURSIVE scanMultiple(_, _, _, _, _, _)
scanMultiple(regs, useBoyerMoore, patterns, startAddress, size, k) ==
    IF k > Len(patterns) THEN <<>>
    ELSE LET R == scanSingle(regs, useBoyerMoore, patterns[k], startAddress, size,
                             PatternResult(0))
         IN  (IF R.ret THEN <<R.result>> ELSE <<>>)
             \o scanMultiple(regs, useBoyerMoore, patterns, startAddress, size, k + 1)


(***************************************************************************)
(* Calls of scanSingle, scanModule and scanMultiple on a target at rest,   *)
(* by a caller that holds the arguments and a fresh PatternResult.         *)
(***************************************************************************)
MaxPatternCount == 2

\* The module names asked for; the provider knows the first, added with
\* addModule(name, baseAddress, size).
ModuleNames == {"supertux.exe", "other.dll"}
ModuleTables(value) == [{"supertux.exe"} -> value]

\* The Patterns the text constructor yields over Bytes, up to length maxLen:
\* not empty, 0 stored at the wildcard positions.
TextPatterns(maxLen) ==
    {p \in PatternsUpTo(maxLen) :
        /\ PatternSize(p) >= 1
        /\ \A k \in 1..PatternSize(p) : ~p.m_mask[k] => p.m_bytes[k] = 0}

PatternLists ==
    UNION {SeqsOfLen(TextPatterns(MaxLivePatternLen), n) : n \in 0..MaxPatternCount}

SingleInputs ==
    {[op |-> "single", pattern |-> p, startAddress |-> a, size |-> n] :
        p \in Patterns, a \in Addresses, n \in Sizes}

ModuleInputs ==
    {[op |-> "module", pattern |-> p, moduleName |-> name,
      m_moduleBases |-> bases, m_moduleSizes |-> sizes] :
        p \in LivePatterns, name \in ModuleNames,
        bases \in ModuleTables({0} \cup Bases), sizes \in ModuleTables(Sizes)}

MultipleInputs ==
    {[op |-> "multiple", patterns |-> ps, startAddress |-> a, size |-> n] :
        ps \in PatternLists, a \in Addresses, n \in Sizes}

ScanSingleCall ==
    /\ api.op = "single"
    /\ ApiCall([op |-> "scanSingle", pattern |-> api.pattern,
                startAddress |-> api.startAddress, size |-> api.size,
                useBoyerMoore |-> m_useBoyerMoore,
                out |-> scanSingle(regions, m_useBoyerMoore, api.pattern,
                                   api.startAddress, api.size, PatternResult(0))])

ScanModuleCall ==
    /\ api.op = "module"
    /\ ApiCall([op |-> "scanModule", pattern |-> api.pattern,
                moduleName |-> api.moduleName,
                m_moduleBases |-> api.m_moduleBases,
                m_moduleSizes |-> api.m_moduleSizes,
                out |-> scanModule(regions, api.m_moduleBases, api.m_moduleSizes,
                                   m_useBoyerMoore, api.pattern, api.moduleName,
                                   PatternResult(0))])

ScanMultipleCall ==
    /\ api.op = "multiple"
    /\ ApiCall([op |-> "scanMultiple", patterns |-> api.patterns,
                startAddress |-> api.startAddress, size |-> api.size,
                results |-> scanMultiple(regions, m_useBoyerMoore, api.patterns,
                                         api.startAddress, api.size, 1)])

\* A scanner with either algorithm selected over a provider whose module
\* region holds any bytes.
InitApi ==
    /\ s_initialized = FALSE
    /\ s_lastError = ""
    /\ s_hooks = <<>>
    /\ fhooks = [o \in Objects |-> NoObject]
    /\ last = NoCall
    /\ threads = IdleThreads
    /\ \E module \in SeqsOfLen(Bytes, ModuleSize) :
          regions = [MockMemory EXCEPT ![ModuleBase] = module]
    /\ scan = IdleScan
    /\ probe = IdleProbe
    /\ m_useBoyerMoore \in BOOLEAN
    /\ api \in SingleInputs \cup ModuleInputs

NextApi ==
    \/ ScanSingleCall
    \/ ScanModuleCall

SpecApi == InitApi /\ [][NextApi]_vars

\* A scanner as constructed over the mock's memory.
InitMultiple ==
    /\ s_initialized = FALSE
    /\ s_lastError = ""
    /\ s_hooks = <<>>
    /\ fhooks = [o \in Objects |-> NoObject]
    /\ last = NoCall
    /\ threads = IdleThreads
    /\ regions = MockMemory
    /\ scan = IdleScan
    /\ probe = IdleProbe
    /\ m_useBoyerMoore = TRUE
    /\ api \in MultipleInputs

NextMultiple == ScanMultipleCall

SpecMultiple == InitMultiple /\ [][NextMultiple]_vars

\* C15: scanSingle returns the same boolean and leaves the same result
\* (address and matchedBytes) as it does on the same pattern, region and
\* memory with the other algorithm selected.
C15_AlgorithmsAgree ==
    api.op = "scanSingle" =>
        LET other == scanSingle(regions, ~api.useBoyerMoore, api.pattern,
                                api.startAddress, api.size, PatternResult(0))
        IN  /\ api.out.ret = other.ret
            /\ api.out.result = other.result

\* A hit of the accelerated algorithm, at an offset above 0, for a pattern
\* with a wildcard and no two fixed bytes in a row.
C15_Witness ==
    /\ api.op = "scanSingle"
    /\ api.useBoyerMoore
    /\ api.out.ret
    /\ api.out.result.address > api.startAddress
    /\ \E k \in 1..PatternSize(api.pattern) : ~api.pattern.m_mask[k]
    /\ \E k \in 1..PatternSize(api.pattern) : api.pattern.m_mask[k]

\* C17: scanModule fails without a call of readMemory when the provider
\* gives 0 for the module's base or for its size; otherwise it returns what
\* scanSingle returns for the pattern over the range [base, base + size),
\* with the same result.
C17_ScanModule ==
    api.op = "scanModule" =>
        LET baseAddress == getModuleBase(api.m_moduleBases, api.moduleName)
            moduleSize == getModuleSize(api.m_moduleSizes, api.moduleName)
        IN  IF baseAddress = 0 \/ moduleSize = 0
            THEN api.out = ScanOut(FALSE, PatternResult(0), 0)
            ELSE api.out = scanSingle(regions, m_useBoyerMoore, api.pattern,
                                      baseAddress, moduleSize, PatternResult(0))

\* scanModule found the pattern in a module the provider knows, at an offset
\* above 0.
C17_Witness ==
    /\ api.op = "scanModule"
    /\ getModuleBase(api.m_moduleBases, api.moduleName) = ModuleBase
    /\ getModuleSize(api.m_moduleSizes, api.moduleName) = ModuleSize
    /\ api.out.ret
    /\ api.out.reads = 1
    /\ api.out.result.address > ModuleBase

\* scanModule failed for a module whose base the provider knows and whose
\* size it gives as 0.
C17_ZeroSize ==
    /\ api.op = "scanModule"
    /\ getModuleBase(api.m_moduleBases, api.moduleName) # 0
    /\ getModuleSize(api.m_moduleSizes, api.moduleName) = 0
    /\ ~api.out.ret

\* The scanSingle call of scanMultiple for its k-th pattern.
SingleOf(k) ==
    scanSingle(regions, m_useBoyerMoore, api.patterns[k], api.startAddress,
               api.size, PatternResult(0))

\* The positions of the patterns given to scanMultiple that scanSingle finds.
Hits == {k \in 1..Len(api.patterns) : SingleOf(k).ret}

\* The j-th lowest of Hits.
HitAt(j) == CHOOSE k \in Hits : Cardinality({h \in Hits : h <= k}) = j

\* C18: scanMultiple returns one result for each pattern that scanSingle
\* finds over the region and none for the others, in the order of the
\* patterns given, each result being the one scanSingle gives.
C18_ScanMultiple ==
    api.op = "scanMultiple" =>
        /\ Len(api.results) = Cardinality(Hits)
        /\ \A j \in 1..Len(api.results) : api.results[j] = SingleOf(HitAt(j)).result

\* Two patterns of which the first misses and the second is found.
C18_Witness ==
    /\ api.op = "scanMultiple"
    /\ Len(api.patterns) = 2
    /\ Hits = {2}
    /\ Len(api.results) = 1

\* C16: a scanSingle over a region shorter than the pattern, the empty
\* region included, returns false with the caller's result untouched, and
\* no comparison is made on a snapshot shorter than the pattern: the window
\* compared lies inside the snapshot.
C16_ShortRegionMisses ==
    LET n == PatternSize(scan.pattern)
    IN  /\ (scan.pc = "done" /\ (scan.size < n \/ Len(scan.memory) < n)) =>
              (~scan.ret /\ scan.result = PatternResult(0))
        /\ scan.pc = "match" =>
              (n <= Len(scan.memory) /\ scan.i >= 0 /\ scan.size >= n)

\* A region that was read, of one byte or more, and is shorter than the
\* pattern: a miss.
C16_Witness ==
    /\ scan.pc = "done"
    /\ probe.reads = 1
    /\ scan.memory # <<>>
    /\ Len(scan.memory) < PatternSize(scan.pattern)
    /\ ~scan.ret

\* The provider rejects the start address of the scan.
Rejected == ~isValidAddress(regions, scan.start)

\* The provider's readMemory fails for the range of the scan.
ReadFails == ~readMemory(regions, scan.start, scan.size).ok

\* C19: on a target at rest, a scanSingle whose start address the provider
\* rejects or whose range readMemory fails for returns false with the
\* caller's result untouched and never reaches a comparison; a rejected
\* start address is not read at all.
C19_FailedReadMisses ==
    /\ scan.pc = "match" => (~Rejected /\ ~ReadFails)
    /\ (scan.pc = "done" /\ (Rejected \/ ReadFails)) =>
          /\ ~scan.ret
          /\ scan.result = PatternResult(0)
          /\ scan.memory = <<>>
          /\ scan.i = 0
          /\ Rejected => probe.reads = 0

\* readMemory failed for a range at a valid address, and the pattern, all
\* wildcards and no longer than the range, was reported as not found.
C19_Witness ==
    /\ scan.pc = "done"
    /\ ~Rejected
    /\ ReadFails
    /\ probe.reads = 1
    /\ PatternSize(scan.pattern) >= 1
    /\ PatternSize(scan.pattern) <= scan.size
    /\ \A k \in 1..PatternSize(scan.pattern) : ~scan.pattern.m_mask[k]
    /\ ~scan.ret

\* C20: enable() of a FunctionHook that is enabled returns false, and so
\* does disable() of a FunctionHook that is not enabled; the object and the
\* table stay as they were.
C20_StateErrorsReported ==
    [][/\ (last'.op = "enable" /\ last'.wasOwnerEnabled) =>
             (~last'.ret /\ fhooks' = fhooks /\ s_hooks' = s_hooks)
       /\ (last'.op = "disable" /\ ~last'.wasOwnerEnabled) =>
             (~last'.ret /\ fhooks' = fhooks /\ s_hooks' = s_hooks)]_vars

\* What the code does instead: enable() of an enabled FunctionHook returns
\* true without a call of the engine.
C20_EnableTwiceSucceeds ==
    /\ last.op = "enable"
    /\ last.wasOwnerEnabled
    /\ last.ret
    /\ last.status = NoStatus

\* And disable() of an installed FunctionHook that is not enabled returns
\* true without a call of the engine.
C20_DisableTwiceSucceeds ==
    /\ last.op = "disable"
    /\ last.wasInstalled
    /\ ~last.wasOwnerEnabled
    /\ last.ret
    /\ last.status = NoStatus

(***************************************************************************)
(* The last-error message behind a boolean result.                         *)
(***************************************************************************)
\* The text each failing branch of the engine assigns to s_lastError.
ErrorMessage(status) ==
    CASE status = MH_ERROR_ALREADY_INITIALIZED -> "MinHook already initialized"
      [] status = MH_ERROR_NOT_INITIALIZED -> "MinHook not initialized"
      [] status = MH_ERROR_ALREADY_CREATED -> "Hook already exists for this address"
      [] status = MH_ERROR_NOT_CREATED -> "Hook not found"
      [] status = MH_ERROR_ENABLED -> "Hook already enabled"
      [] status = MH_ERROR_DISABLED -> "Hook already disabled"
      [] OTHER -> ""

\* MinHookWrapper::getLastError()
getLastError == s_lastError

OwnerOps == {"install", "enable", "disable", "remove"}

\* C21: when install, enable, disable or remove of a FunctionHook returns
\* false, that call reached the engine, the engine reported an error, and
\* getLastError() is the message of that error.
C21_LastErrorOfFailure ==
    (last.op \in OwnerOps /\ ~last.ret) =>
        /\ last.status \notin {NoStatus, MH_OK}
        /\ getLastError = ErrorMessage(last.status)

(***************************************************************************)
(* The lifecycle of one target in the hook table.                          *)
(***************************************************************************)
\* What createHook(target, hook, &original) leaves in original, which held
\* before: hookInfo.originalFunction on MH_OK, untouched otherwise.
OriginalOut(E, target, hook, before) ==
    LET R == createHook(E, target, hook)
    IN  IF R.status = MH_OK
        THEN R.E.hooks[FindHook(R.E.hooks, target)].originalFunction
        ELSE before

\* C22: a record for a target appears only in a successful create, disabled,
\* with the given hookFunction, and the original handed back is the target's
\* address; while the record exists its hookFunction and originalFunction
\* stay, it becomes enabled only in a successful enable of that target and
\* disabled only in a successful disable of that target; it disappears only
\* in a successful remove of that target or in uninitialize, which disables
\* and deletes every record; after a successful remove the target has no
\* record and a create on it would succeed.
C22_Lifecycle ==
    [][/\ \A t \in Targets :
            /\ (~HasRecord(s_hooks, t) /\ HasRecord(s_hooks', t)) =>
                  /\ IsCreate(last') /\ last'.target = t /\ last'.status = MH_OK
                  /\ RecordOf(s_hooks', t) =
                        [targetAddress |-> t, hookFunction |-> last'.hook,
                         originalFunction |-> t, enabled |-> FALSE]
                  /\ OriginalOut(Engine, t, last'.hook, 0) = t
            /\ (HasRecord(s_hooks, t) /\ HasRecord(s_hooks', t)) =>
                  /\ RecordOf(s_hooks', t).hookFunction = RecordOf(s_hooks, t).hookFunction
                  /\ RecordOf(s_hooks', t).originalFunction = RecordOf(s_hooks, t).originalFunction
                  /\ (~RecordOf(s_hooks, t).enabled /\ RecordOf(s_hooks', t).enabled) =>
                        IsEnable(last') /\ last'.target = t /\ last'.status = MH_OK
                  /\ (RecordOf(s_hooks, t).enabled /\ ~RecordOf(s_hooks', t).enabled) =>
                        IsDisable(last') /\ last'.target = t /\ last'.status = MH_OK
            /\ (HasRecord(s_hooks, t) /\ ~HasRecord(s_hooks', t)) =>
                  \/ IsRemove(last') /\ last'.target = t /\ last'.status = MH_OK
                  \/ last'.op = "uninitialize" /\ last'.status = MH_OK
       /\ (IsCreate(last') /\ last'.status = MH_OK) =>
             /\ ~HasRecord(s_hooks, last'.target)
             /\ HasRecord(s_hooks', last'.target)
       /\ (IsEnable(last') /\ last'.status = MH_OK) =>
             RecordOf(s_hooks', last'.target).enabled
       /\ (IsDisable(last') /\ last'.status = MH_OK) =>
             ~RecordOf(s_hooks', last'.target).enabled
       /\ (IsRemove(last') /\ last'.status = MH_OK) =>
             /\ ~HasRecord(s_hooks', last'.target)
             /\ \A h \in Routines :
                   createHook(Engine', last'.target, h).status = MH_OK]_vars

\* A target's enabled record was removed while the other target's record
\* stays enabled: the removed target is back to having no record.
C22_Witness ==
    /\ last.op = "removeHook"
    /\ last.status = MH_OK
    /\ last.wasEnabled
    /\ ~HasRecord(s_hooks, last.target)
    /\ Len(s_hooks) = 1
    /\ s_hooks[1].enabled
    /\ \A h \in Routines : createHook(Engine, last.target, h).status = MH_OK

(***************************************************************************)
(* scanEntireProcess over the mock provider: the module "supertux.exe" and *)
(* the heap region behind it, each holding any bytes.                      *)
(***************************************************************************)
\* m_moduleBases and m_moduleSizes after initializeMockMemory.
MockModuleBases == [name \in {"supertux.exe"} |-> ModuleBase]
MockModuleSizes == [name \in {"supertux.exe"} |-> ModuleSize]

\* PatternScanner::scanEntireProcess
scanEntireProcess(regs, bases, sizes, useBoyerMoore, pattern, result) ==
    scanModule(regs, bases, sizes, useBoyerMoore, pattern, "supertux.exe", result)

ProcessInputs == {[op |-> "process", pattern |-> p] : p \in TextPatterns(MaxPatternLen)}

ScanEntireProcessCall ==
    /\ api.op = "process"
    /\ ApiCall([op |-> "scanEntireProcess", pattern |-> api.pattern,
                out |-> scanEntireProcess(regions, MockModuleBases, MockModuleSizes,
                                          m_useBoyerMoore, api.pattern,
                                          PatternResult(0))])

InitProcess ==
    /\ s_initialized = FALSE
    /\ s_lastError = ""
    /\ s_hooks = <<>>
    /\ fhooks = [o \in Objects |-> NoObject]
    /\ last = NoCall
    /\ threads = IdleThreads
    /\ \E module \in SeqsOfLen(Bytes, ModuleSize), heap \in SeqsOfLen(Bytes, HeapSize) :
          regions = [b \in Bases |-> IF b = ModuleBase THEN module ELSE heap]
    /\ scan = IdleScan
    /\ probe = IdleProbe
    /\ m_useBoyerMoore \in BOOLEAN
    /\ api \in ProcessInputs

NextProcess == ScanEntireProcessCall

SpecProcess == InitProcess /\ [][NextProcess]_vars

\* The regions of the provider in which the pattern occurs.
RegionsWith(regs, p) == {b \in DOMAIN regs : MatchOffsets(p, regs[b]) # {}}

\* C23: scanEntireProcess finds a pattern that occurs in any region of the
\* provider, the heap region included, and its result lies in a region where
\* the pattern occurs.
C23_AllRegionsScanned ==
    api.op = "scanEntireProcess" =>
        /\ RegionsWith(regions, api.pattern) # {} => api.out.ret
        /\ api.out.ret =>
              \E b \in RegionsWith(regions, api.pattern) :
                  api.out.result.address - b \in MatchOffsets(api.pattern, regions[b])

(***************************************************************************)
(* A FunctionHook against the table it stands for.                         *)
(***************************************************************************)
\* FunctionHook::isInstalled(), isEnabled() and getOriginal()
isInstalled(f) == f.m_installed
isEnabled(f) == f.m_enabled
getOriginal(f) == f.m_originalFunction

\* C24: a FunctionHook whose isInstalled() is true has a record in the hook
\* table for its target whose hookFunction is its own routine, and its
\* isEnabled() is that record's enabled flag.
C24_InstalledHasOwnRecord ==
    \A o \in Objects :
        (fhooks[o].alive /\ isInstalled(fhooks[o])) =>
            /\ HasRecord(s_hooks, fhooks[o].m_targetAddress)
            /\ RecordOf(s_hooks, fhooks[o].m_targetAddress).hookFunction =
                  fhooks[o].m_hookFunction
            /\ RecordOf(s_hooks, fhooks[o].m_targetAddress).enabled =
                  isEnabled(fhooks[o])

\* C25: isEnabled() implies isInstalled(), and getOriginal() is 0 while
\* isInstalled() is false; after a remove() that returned true the hook is
\* neither installed nor enabled.
C25_EnabledImpliesInstalled ==
    /\ \A o \in Objects :
          fhooks[o].alive =>
              /\ isEnabled(fhooks[o]) => isInstalled(fhooks[o])
              /\ ~isInstalled(fhooks[o]) => getOriginal(fhooks[o]) = 0
    /\ (last.op = "remove" /\ last.ret) =>
          /\ ~isInstalled(fhooks[last.obj])
          /\ ~isEnabled(fhooks[last.obj])

(***************************************************************************)
(* The engine while it is not initialized.                                 *)
(***************************************************************************)
\* MinHookWrapper::isInitialized()
isInitialized == s_initialized

TableOpNames == {"createHook", "enableHook", "disableHook", "removeHook"}

\* C26: the hook table is empty in every state in which isInitialized() is
\* false.  On an engine that is not initialized createHook, enableHook,
\* disableHook, removeHook and uninitialize return NotInitialized and leave
\* the table and the engine not initialized; initialize on an initialized
\* engine returns AlreadyInitialized and leaves the table and the engine
\* initialized; uninitialize on an initialized engine disables every record
\* in its loop and leaves an empty table and an engine not initialized.
C26_Uninitialized ==
    /\ [](~isInitialized => s_hooks = <<>>)
    /\ [][/\ (last'.op \in TableOpNames \cup {"uninitialize"} /\ ~isInitialized) =>
                /\ last'.status = MH_ERROR_NOT_INITIALIZED
                /\ s_hooks' = s_hooks
                /\ ~isInitialized'
          /\ (last'.op = "initialize" /\ isInitialized) =>
                /\ last'.status = MH_ERROR_ALREADY_INITIALIZED
                /\ s_hooks' = s_hooks
                /\ isInitialized'
          /\ (last'.op = "initialize" /\ ~isInitialized) =>
                /\ last'.status = MH_OK
                /\ s_hooks' = s_hooks
                /\ isInitialized'
          /\ (last'.op = "uninitialize" /\ isInitialized) =>
                /\ last'.status = MH_OK
                /\ \A k \in 1..Len(s_hooks) :
                      ~DisableAllFrom(Engine, 1).hooks[k].enabled
                /\ s_hooks' = <<>>
                /\ ~isInitialized']_vars

\* A createHook on the engine that is not initialized, after an engine call
\* left its message: NotInitialized, the table empty.
C26_Witness ==
    /\ last.op = "createHook"
    /\ ~last.wasInit
    /\ last.status = MH_ERROR_NOT_INITIALIZED
    /\ last.target = MaxTarget
    /\ ~isInitialized
    /\ s_hooks = <<>>

(***************************************************************************)
(* readMemory against the registered regions.                              *)
(***************************************************************************)
\* The regions that hold the whole range [address, address + size), the
\* start address included.
RegionsHolding(regs, address, size) ==
    {b \in DOMAIN regs : /\ address >= b
                         /\ address < b + Len(regs[b])
                         /\ address + size <= b + Len(regs[b])}

\* The bytes the regions hold at [address, address + size).
BytesAt(regs, address, size) ==
    LET b == CHOOSE r \in RegionsHolding(regs, address, size) : TRUE
    IN  SubSeq(regs[b], address - b + 1, address - b + size)

\* C27: readMemory(address, size) succeeds exactly when the whole range lies
\* inside one registered region and then gives the bytes of that range;
\* every address isValidAddress accepts can be read; a scanSingle over a
\* range inside one region finds the pattern when the range holds a match.
C27_ReadInsideRegion ==
    api.op = "scanSingle" =>
        LET R == readMemory(regions, api.startAddress, api.size)
            inside == RegionsHolding(regions, api.startAddress, api.size) # {}
        IN  /\ R.ok <=> inside
            /\ R.ok => R.buffer = BytesAt(regions, api.startAddress, api.size)
            /\ isValidAddress(regions, api.startAddress) =>
                  readMemory(regions, api.startAddress, 1).ok
            /\ (/\ inside
                /\ PatternSize(api.pattern) >= 1
                /\ MatchOffsets(api.pattern,
                                BytesAt(regions, api.startAddress, api.size)) # {}) =>
                  api.out.ret

=============================================================================
